---- MODULE Spec2Model ----
(***************************************************************************)
(* Flux shell: the command lifecycle of CommandInterface                   *)
(* (src/core/helpers/commands.py), the ext builtin that overrides parts of *)
(* it (src/core/cmd/builtin/ext.py) and the job registry                   *)
(* (src/core/system/processes.py).                                         *)
(*                                                                         *)
(* Spec      one handler instance driven through the execution flow that   *)
(*           the CommandInterface docstring prescribes.                    *)
(* SpecJobs  the Processes registry with its job threads.                  *)
(***************************************************************************)
EXTENDS Integers, Sequences, FiniteSets, TLC

(***************************************************************************)
(* Program constants                                                       *)
(***************************************************************************)
STATUS_OK == 0
STATUS_ERR == 1
\* imported by commands.py from processes.py, which does not define it; any
\* value different from STATUS_OK and STATUS_ERR behaves alike in the model
STATUS_WARN == 2
\* Python's None for an integer attribute (status, returned value, p)
NONE == -1

CRITICAL == 50
FATAL == CRITICAL
ERROR == 40
WARNING == 30
INFO == 20
DEBUG == 10
NOTSET == 0
Levels == {CRITICAL, ERROR, WARNING, INFO, DEBUG, NOTSET}

(***************************************************************************)
(* Bounds                                                                  *)
(***************************************************************************)
\* logging-helper calls one handler run makes
MaxHelperCalls == 2
\* exit codes an external process of the ext builtin returns: 0..MaxReturnCode
MaxReturnCode == 2
\* jobs added to the registry in one session
MaxJobs == 2

\* sys.stdout, sys.stderr, sys.stdin; the other streams are files opened for
\* the handler ("file_a", "file_b")
SysStreams == {"sys_stdout", "sys_stderr", "sys_stdin"}
Stages == {"init", "setup", "run", "close", "exit", "fail_safe"}

VARIABLES
    \* ---- the handler instance (CommandInterface.__init__) ----
    kind,            \* "generic": a handler using the inherited stages; "ext": ext.Command
    argShape,        \* shape of self.command: "none" (no argument), "help", "cmd"
    status,          \* self.status
    hasParser,       \* self.parser is not None
    exit_execution,  \* self.parser.exit_execution
    log_level,       \* self.log_level
    stdout, stderr, stdin,   \* the streams bound to the handler
    closed,          \* the streams on which close() has been called
    p,               \* ext: returncode of the module-level Popen object, NONE when there is none
    \* ---- the driver ----
    pc,              \* "ready" | "running" | "raised" | "done"
    cur,             \* the stage invoked last ("none" before init)
    result,          \* the status the driver returns
    \* ---- observation ----
    calls,           \* the stages invoked so far, in order
    ended,           \* how many of them have returned or raised
    abortPath,       \* the driver took the abort branch after setup
    setupAborted,    \* setup() reported a validation failure
    raisedIn,        \* the stage an exception escaped from ("none")
    nHelper,         \* logging-helper calls made so far
    lastLog          \* the last logging-helper call and what it did

lifeVars == <<kind, argShape, status, hasParser, exit_execution, log_level,
              stdout, stderr, stdin, closed, p, pc, cur, result, calls, ended,
              abortPath, setupAborted, raisedIn, nHelper, lastLog>>

VARIABLES
    \* ---- the job registry (Processes) and the jobs (Process) ----
    jobs,            \* the Process objects created so far, by creation number
    processes,       \* Processes.processes: the creation numbers, in list order
    mpc,             \* the main flow: "idle", or "clean" inside clean()'s loop
    ci,              \* clean(): the position of the list iterator
    doneAtCall,      \* clean(): the jobs whose thread had finished when it was called
    listAtCall,      \* inside clean(): the list as it was when clean() was called
    lastOp,          \* the registry operation that returned last
    arg,             \* the identifier it was called with, when its caller keeps the result
    ret              \* the job (its creation number) it returned to that caller, or NONE

jobVars == <<jobs, processes, mpc, ci, doneAtCall, listAtCall, lastOp, arg, ret>>

VARIABLES
    \* ---- a caller of list() ----
    snapshot,        \* the sequence list() returned to it
    shared,          \* whether that sequence is the registry's own list object
    \* ---- the prompt of the session loop (main.py) ----
    cmd,             \* what listen() returned last
    lastRead,        \* how that read ended: "none", "line", "break", "eof"
    manageCalls,     \* the vectors given to manager.manage since that read
    \* ---- the lexer ----
    raw,             \* the input line, a sequence of characters
    out,             \* the argument vector, a sequence of tokens
    lexed,           \* the line has been tokenized
    groups,          \* the argument vectors of the line, one for each command
    splitDone        \* the line has been split into commands

VARIABLES
    \* ---- the Variable Store (info.variables) ----
    store,           \* the variables, in the order in which they were added
    lastStore,       \* the last operation on the store and what it gave
    \* ---- the dispatcher (manager.manage) ----
    group,           \* the argument vectors of the command group being dispatched
    idx,             \* the position of the vector dispatched last (0: none yet)
    dpc,             \* "next" between two vectors, "handler" inside one, "finished"
    events           \* what became of each vector dispatched so far

VARIABLES
    \* ---- the session (INFO.user.paths) ----
    terminal         \* the directory the session is in, shown in the prompt

storeVars == <<store, lastStore>>
dirVars == <<terminal>>
dispVars == <<group, idx, dpc, events>>
viewVars == <<snapshot, shared>>
readVars == <<cmd, lastRead, manageCalls>>
lexVars == <<raw, out, lexed, groups, splitDone>>

vars == <<lifeVars, jobVars, viewVars, readVars, lexVars, storeVars, dispVars, dirVars>>

\* what the steps of one component leave alone
notLife == <<jobVars, viewVars, readVars, lexVars, storeVars, dispVars, dirVars>>
notJobs == <<lifeVars, viewVars, readVars, lexVars, storeVars, dispVars, dirVars>>

NoStoreOp == [op |-> "none", name |-> "", value |-> "", ok |-> FALSE]

\* no variable stored and no command group dispatched
InitStore == store = <<>> /\ lastStore = NoStoreOp
InitDispatcher == group = <<>> /\ idx = 0 /\ dpc = "finished" /\ events = <<>>

\* the session starts in the user's home directory
InitDirs == terminal = "/home"

NoLog == [helper |-> "none", severity |-> 0, threshold |-> 0, wrote |-> FALSE,
          stream |-> "none", completed |-> FALSE]

\* Python truthiness of an integer-or-None value
Truthy(s) == s # NONE /\ s # 0

(***************************************************************************)
(* CommandInterface.__init__: the state after construction.  The defaults  *)
(* of the stream arguments are stdout=sys.stdout, stderr=sys.stdout,       *)
(* stdin=sys.stdin.                                                        *)
(***************************************************************************)
InitLife ==
    /\ kind \in {"generic", "ext"}
    /\ argShape \in {"none", "help", "cmd"}
    /\ status = NONE
    /\ hasParser = FALSE
    /\ exit_execution = FALSE
    /\ log_level = NOTSET
    /\ stdout \in {"sys_stdout", "file_a"}
    /\ stderr \in {"sys_stdout", "sys_stderr", "file_a", "file_b"}
    /\ stdin \in {"sys_stdin", "file_b"}
    /\ closed = {}
    /\ p = NONE
    /\ pc = "ready"
    /\ cur = "none"
    /\ result = NONE
    /\ calls = <<>>
    /\ ended = 0
    /\ abortPath = FALSE
    /\ setupAborted = FALSE
    /\ raisedIn = "none"
    /\ nHelper = 0
    /\ lastLog = NoLog

\* Processes.__init__
InitJobs ==
    /\ jobs = <<>>
    /\ processes = <<>>
    /\ mpc = "idle"
    /\ ci = 0
    /\ doneAtCall = {}
    /\ listAtCall = <<>>
    /\ lastOp = "none"
    /\ arg = NONE
    /\ ret = NONE

\* nothing listed, read or tokenized yet
InitRest ==
    /\ snapshot = <<>>
    /\ shared = FALSE
    /\ cmd = <<>>
    /\ lastRead = "none"
    /\ manageCalls = <<>>
    /\ raw = <<>>
    /\ out = <<>>
    /\ lexed = FALSE
    /\ groups = <<>> /\ splitDone = FALSE
    /\ InitStore /\ InitDispatcher /\ InitDirs

Init == InitLife /\ InitJobs /\ InitRest

(***************************************************************************)
(* The driver: the execution flow of the CommandInterface docstring.       *)
(***************************************************************************)
\* a flow that never takes the abort branch
AbortIgnored == FALSE

\* if command.status == STATUS_ERR or command.parser and command.parser.exit_execution
AbortRequested == status = STATUS_ERR \/ (hasParser /\ exit_execution)

\* a flow that leaves close() out of the normal path
DriverNextNoClose(stage, abort) ==
    CASE stage = "none"  -> "init"
      [] stage = "init"  -> "setup"
      [] stage = "setup" -> IF abort THEN "close" ELSE "run"
      [] stage = "run"   -> "exit"
      [] stage = "close" -> "exit"
      [] OTHER           -> "return"

\* the stage the flow invokes once `stage` has returned ("return": none is left)
DriverNext(stage, abort) ==
    CASE stage = "none"  -> "init"
      [] stage = "init"  -> "setup"
      [] stage = "setup" -> IF abort THEN "close" ELSE "run"
      [] stage = "run"   -> "close"
      [] stage = "close" -> "exit"
      [] OTHER           -> "return"

Enter(stage) ==
    /\ pc = "ready"
    /\ DriverNext(cur, AbortRequested) = stage
    /\ pc' = "running"
    /\ cur' = stage
    /\ calls' = Append(calls, stage)
    /\ abortPath' = IF cur = "setup" THEN AbortRequested ELSE abortPath

\* a stage returns to the driver
Leave ==
    /\ pc' = "ready"
    /\ ended' = ended + 1

CallInit ==
    /\ Enter("init")
    /\ UNCHANGED <<kind, argShape, status, hasParser, exit_execution, log_level,
                   stdout, stderr, stdin, closed, p, result, ended,
                   setupAborted, raisedIn, nHelper, lastLog>>
    /\ UNCHANGED notLife

CallSetup ==
    /\ Enter("setup")
    /\ UNCHANGED <<kind, argShape, status, hasParser, exit_execution, log_level,
                   stdout, stderr, stdin, closed, p, result, ended,
                   setupAborted, raisedIn, nHelper, lastLog>>
    /\ UNCHANGED notLife

CallRun ==
    /\ Enter("run")
    /\ UNCHANGED <<kind, argShape, status, hasParser, exit_execution, log_level,
                   stdout, stderr, stdin, closed, p, result, ended,
                   setupAborted, raisedIn, nHelper, lastLog>>
    /\ UNCHANGED notLife

CallClose ==
    /\ Enter("close")
    /\ UNCHANGED <<kind, argShape, status, hasParser, exit_execution, log_level,
                   stdout, stderr, stdin, closed, p, result, ended,
                   setupAborted, raisedIn, nHelper, lastLog>>
    /\ UNCHANGED notLife

CallExit ==
    /\ Enter("exit")
    /\ UNCHANGED <<kind, argShape, status, hasParser, exit_execution, log_level,
                   stdout, stderr, stdin, closed, p, result, ended,
                   setupAborted, raisedIn, nHelper, lastLog>>
    /\ UNCHANGED notLife

\* a fault boundary around run() alone
CaughtRunOnly(stage) == stage = "run"

\* the stages inside the try block of the flow
Caught(stage) == stage \in {"init", "setup", "run", "close"}

\* a driver with no except clause
Escapes(stage) == "escaped"

\* OnFault(stage): where an exception escaping `stage` takes the driver: into the
\* except clause, or out of the driver with no status
OnFault(stage) == IF Caught(stage) THEN "raised" ELSE "escaped"

\* except Exception as e: an exception escapes init, setup, run or close
StageRaises ==
    /\ pc = "running"
    /\ cur \in {"init", "setup", "run", "close"}
    /\ pc' = OnFault(cur)
    /\ raisedIn' = cur
    /\ ended' = ended + 1
    /\ UNCHANGED <<kind, argShape, status, hasParser, exit_execution, log_level,
                   stdout, stderr, stdin, closed, p, cur, result, calls,
                   abortPath, setupAborted, nHelper, lastLog>>
    /\ UNCHANGED notLife

\* command.fail_safe(e)
CallFailSafe ==
    /\ pc = "raised"
    /\ pc' = "running"
    /\ cur' = "fail_safe"
    /\ calls' = Append(calls, "fail_safe")
    /\ UNCHANGED <<kind, argShape, status, hasParser, exit_execution, log_level,
                   stdout, stderr, stdin, closed, p, result, ended, abortPath,
                   setupAborted, raisedIn, nHelper, lastLog>>
    /\ UNCHANGED notLife

(***************************************************************************)
(* The stages                                                              *)
(***************************************************************************)
\* init(): the inherited one does nothing; a handler creates its parser here
\* and may configure its log_level.  ext.Command.init creates the parser.
InitReturns ==
    /\ pc = "running" /\ cur = "init"
    /\ IF kind = "ext"
         THEN hasParser' = TRUE /\ log_level' = log_level
         ELSE hasParser' \in BOOLEAN /\ log_level' \in Levels
    /\ Leave
    /\ UNCHANGED <<kind, argShape, status, exit_execution, stdout, stderr, stdin,
                   closed, p, cur, result, calls, abortPath, setupAborted,
                   raisedIn, nHelper, lastLog>>
    /\ UNCHANGED notLife

\* CommandInterface.setup; `fails` is what parse_args reports in
\* parser.exit_execution.  Without a parser the AttributeError is swallowed.
BaseSetup(fails) ==
    IF hasParser
      THEN /\ exit_execution' = fails
           /\ status' = IF fails THEN STATUS_ERR ELSE status
           /\ setupAborted' = fails
      ELSE UNCHANGED <<exit_execution, status, setupAborted>>

\* ext.Command.setup: -h/--help in position 1 or no argument at all goes through
\* the inherited setup, anything else is taken as the command to spawn
SetupReturns ==
    /\ pc = "running" /\ cur = "setup"
    /\ \E fails \in BOOLEAN :
         IF kind = "ext" /\ argShape = "cmd"
           THEN fails = FALSE /\ UNCHANGED <<exit_execution, status, setupAborted>>
           ELSE BaseSetup(fails)
    /\ Leave
    /\ UNCHANGED <<kind, argShape, hasParser, log_level, stdout, stderr, stdin,
                   closed, p, cur, result, calls, abortPath, raisedIn, nHelper,
                   lastLog>>
    /\ UNCHANGED notLife

(***************************************************************************)
(* The logging helpers.  critical, fatal and error format the message with *)
(* self.parser.prog whichever the value of use_color and write it with     *)
(* printerr; warning reads self.parser.prog only with use_color and writes *)
(* with print on both values of to_stdout; info and debug write with       *)
(* print.  Reading .prog of an absent parser raises AttributeError, which  *)
(* leaves the helper before it assigns the status.                         *)
(***************************************************************************)
\* if self.log_level <= _Levels.X
Passes(threshold, severity) == threshold <= severity

Log(helper, severity, stream, needsParser, newStatus) ==
    LET passes == Passes(log_level, severity)
        call == [helper |-> helper, severity |-> severity, threshold |-> log_level,
                 wrote |-> FALSE, stream |-> stream, completed |-> FALSE]
    IN  /\ pc = "running" /\ cur = "run"
        /\ nHelper < MaxHelperCalls
        /\ nHelper' = nHelper + 1
        /\ IF passes /\ needsParser /\ ~hasParser
             THEN /\ lastLog' = call
                  /\ status' = status
                  /\ pc' = OnFault(cur)
                  /\ raisedIn' = cur
                  /\ ended' = ended + 1
             ELSE /\ lastLog' = [call EXCEPT !.wrote = passes, !.completed = TRUE]
                  /\ status' = newStatus
                  /\ UNCHANGED <<pc, raisedIn, ended>>
        /\ UNCHANGED <<kind, argShape, hasParser, exit_execution, log_level, stdout,
                       stderr, stdin, closed, p, cur, result, calls, abortPath,
                       setupAborted>>
        /\ UNCHANGED notLife

critical == kind = "generic" /\ Log("critical", CRITICAL, stderr, TRUE, STATUS_ERR)

fatal == kind = "generic" /\ Log("fatal", FATAL, stderr, TRUE, STATUS_ERR)

error == kind = "generic" /\ Log("error", ERROR, stderr, TRUE, STATUS_ERR)

warning ==
    /\ kind = "generic"
    /\ \E use_color \in BOOLEAN : Log("warning", WARNING, stdout, use_color, STATUS_WARN)

\* an info() that sets the status as warning() does
InfoSetsStatus == kind = "generic" /\ Log("info", INFO, stdout, FALSE, STATUS_WARN)

info == kind = "generic" /\ Log("info", INFO, stdout, FALSE, status)

debug == kind = "generic" /\ Log("debug", DEBUG, stdout, FALSE, status)

(***************************************************************************)
(* run, close, exit, fail_safe                                             *)
(***************************************************************************)
\* run() of a handler that uses the inherited stages returns
RunReturns ==
    /\ pc = "running" /\ cur = "run" /\ kind = "generic"
    /\ Leave
    /\ UNCHANGED <<kind, argShape, status, hasParser, exit_execution, log_level,
                   stdout, stderr, stdin, closed, p, cur, result, calls, abortPath,
                   setupAborted, raisedIn, nHelper, lastLog>>
    /\ UNCHANGED notLife

ReturnCodes == 0 .. MaxReturnCode

\* ext.Command.run: the process was spawned and waited for
ExtRunSpawned ==
    /\ pc = "running" /\ cur = "run" /\ kind = "ext" /\ nHelper = 0
    /\ \E rc \in ReturnCodes : p' = rc
    /\ Leave
    /\ UNCHANGED <<kind, argShape, status, hasParser, exit_execution, log_level,
                   stdout, stderr, stdin, closed, cur, result, calls, abortPath,
                   setupAborted, raisedIn, nHelper, lastLog>>
    /\ UNCHANGED notLife

\* ext.Command.run: except FileNotFoundError: self.error(...); self.status = STATUS_ERR
ExtRunNotFound ==
    /\ kind = "ext" /\ nHelper = 0
    /\ Log("error", ERROR, stderr, TRUE, STATUS_ERR)

ExtRunNotFoundReturns ==
    /\ pc = "running" /\ cur = "run" /\ kind = "ext" /\ nHelper > 0
    /\ Leave
    /\ UNCHANGED <<kind, argShape, status, hasParser, exit_execution, log_level,
                   stdout, stderr, stdin, closed, p, cur, result, calls, abortPath,
                   setupAborted, raisedIn, nHelper, lastLog>>
    /\ UNCHANGED notLife

\* the streams close() and fail_safe() release: those that are not the
\* process's stream of the same role
OwnedStreams ==
    {s \in {stdout} : s # "sys_stdout"} \cup {s \in {stderr} : s # "sys_stderr"}
        \cup {s \in {stdin} : s # "sys_stdin"}

\* CommandInterface.close, and ext.Command.close, which replaces it
CloseReturns ==
    /\ pc = "running" /\ cur = "close"
    /\ IF kind = "ext"
         THEN /\ status' = IF Truthy(status) THEN status
                           ELSE IF p # NONE THEN p ELSE STATUS_ERR
              /\ closed' = closed
         ELSE /\ closed' = closed \cup OwnedStreams
              /\ status' = status
    /\ Leave
    /\ UNCHANGED <<kind, argShape, hasParser, exit_execution, log_level, stdout,
                   stderr, stdin, p, cur, result, calls, abortPath, setupAborted,
                   raisedIn, nHelper, lastLog>>
    /\ UNCHANGED notLife

\* return self.status
ExitValueRaw(s) == s

\* return self.status if self.status else STATUS_OK
ExitValue(s) == IF Truthy(s) THEN s ELSE STATUS_OK

\* status = command.exit(); return status
ExitReturns ==
    /\ pc = "running" /\ cur = "exit"
    /\ result' = ExitValue(status)
    /\ pc' = "done"
    /\ ended' = ended + 1
    /\ UNCHANGED <<kind, argShape, status, hasParser, exit_execution, log_level,
                   stdout, stderr, stdin, closed, p, cur, calls, abortPath,
                   setupAborted, raisedIn, nHelper, lastLog>>
    /\ UNCHANGED notLife

\* a fail_safe that does not touch the status
FailSafeStatusKept == status

\* the status fail_safe leaves
FailSafeStatus == STATUS_ERR

\* CommandInterface.fail_safe, then status = command.status; return status
FailSafeReturns ==
    /\ pc = "running" /\ cur = "fail_safe"
    /\ status' = FailSafeStatus
    /\ closed' = closed \cup OwnedStreams
    /\ result' = status'
    /\ pc' = "done"
    /\ ended' = ended + 1
    /\ UNCHANGED <<kind, argShape, hasParser, exit_execution, log_level, stdout,
                   stderr, stdin, p, cur, calls, abortPath, setupAborted, raisedIn,
                   nHelper, lastLog>>
    /\ UNCHANGED notLife

Next ==
    \/ CallInit \/ InitReturns
    \/ CallSetup \/ SetupReturns
    \/ CallRun \/ RunReturns
    \/ critical \/ fatal \/ error \/ warning \/ info \/ debug
    \/ ExtRunSpawned \/ ExtRunNotFound \/ ExtRunNotFoundReturns
    \/ CallClose \/ CloseReturns
    \/ CallExit \/ ExitReturns
    \/ StageRaises \/ CallFailSafe \/ FailSafeReturns

Spec == Init /\ [][Next]_vars

(***************************************************************************)
(* Properties of the lifecycle                                             *)
(***************************************************************************)
IsPrefix(s, t) == Len(s) <= Len(t) /\ \A i \in 1 .. Len(s) : s[i] = t[i]
Count(stage) == Cardinality({i \in 1 .. Len(calls) : calls[i] = stage})
Invoked(stage) == Count(stage) > 0
NormalFlow == <<"init", "setup", "run", "close", "exit">>
AbortFlow == <<"init", "setup", "close", "exit">>
Flow == IF abortPath THEN AbortFlow ELSE NormalFlow
StagesInvoked == SelectSeq(calls, LAMBDA x : x # "fail_safe")

\* C1: the stages are invoked in the order init, setup, then close, exit when the
\* abort was requested and run, close, exit when it was not; none is invoked
\* twice, none before the one before it has returned, and a run without a fault
\* goes through all of them.
C1_StageOrder ==
    /\ IsPrefix(StagesInvoked, Flow)
    /\ \A st \in Stages : Count(st) <= 1
    /\ Len(calls) - ended = (IF pc = "running" THEN 1 ELSE 0)
    /\ (cur \in {"run", "close", "exit"} /\ ~Invoked("fail_safe")
          => (abortPath <=> ~Invoked("run")))
    /\ (pc = "done" /\ raisedIn = "none" => calls = Flow)

C1_Witness == pc = "done" /\ calls = NormalFlow /\ ended = 5

\* C2: when setup() aborts, run() is never invoked and close() is invoked
\* exactly once (it is the next stage, and it is invoked by the end of the run).
C2_SetupAbort ==
    setupAborted =>
        /\ status # NONE
        /\ ~Invoked("run")
        /\ Count("close") <= 1
        /\ (pc = "ready" /\ cur = "setup" => AbortRequested)
        /\ (pc = "done" => Count("close") = 1)

C2_Witness == setupAborted /\ pc = "done" /\ Count("close") = 1 /\ result = STATUS_ERR

\* C3: an exception raised inside run() ends with the error status, fail_safe
\* invoked exactly once, and close() and exit() not invoked.
C3_RunFault ==
    raisedIn = "run" =>
        /\ ~Invoked("close") /\ ~Invoked("exit")
        /\ Count("fail_safe") <= 1
        /\ (pc = "done" =>
              Count("fail_safe") = 1 /\ status = STATUS_ERR /\ result = STATUS_ERR)

C3_Witness == raisedIn = "run" /\ pc = "done" /\ Count("fail_safe") = 1

\* C4: an exception escaping init, setup, run or close is caught and handed to
\* fail_safe, the final status is the error code, and exit() is not invoked
\* afterwards; so for an exception raised by close() after run() returned.
C4_FaultBoundary ==
    raisedIn # "none" =>
        /\ pc \in {"raised", "running", "done"}
        /\ ~Invoked("exit")
        /\ (pc = "running" => cur = "fail_safe")
        /\ (pc = "done" =>
              /\ calls[Len(calls)] = "fail_safe"
              /\ status = STATUS_ERR /\ result = STATUS_ERR)

C4_Witness ==
    /\ raisedIn = "close" /\ pc = "done" /\ Invoked("run") /\ result = STATUS_ERR

\* C5: exit() returns the status when one was set and 0 otherwise, never an
\* absent value, and leaves the status as it was.
C5_ExitValue ==
    /\ [](pc = "done" /\ cur = "exit" =>
            /\ result # NONE
            /\ result = (IF status = NONE THEN STATUS_OK ELSE status))
    /\ [][cur = "exit" /\ pc = "running" => status' = status]_vars

C5_Witness == pc = "done" /\ cur = "exit" /\ status = NONE /\ result = STATUS_OK

(***************************************************************************)
(* The job registry: Process and Processes of processes.py.  A Process     *)
(* stays in `jobs` after it has left the list: its thread goes on.         *)
(***************************************************************************)
JobIds == 1 .. MaxJobs
\* the handler statuses the jobs' handlers end with
HandlerStatuses == {NONE, STATUS_ERR}

\* p.thread.is_alive()
Alive(k) == jobs[k].tpc # "finished"

\* Processes.list: a copy of the list
list == processes

\* a removal that leaves the list as it is
KeepAt(seq, i) == seq

\* list.remove: the list without its element at position i
RemoveAt(seq, i) == [j \in 1 .. Len(seq) - 1 |-> IF j < i THEN seq[j] ELSE seq[j + 1]]

\* the position of the last job with this id, 0 when there is none
LastWithId(id) ==
    IF \E i \in 1 .. Len(processes) : jobs[processes[i]].id = id
      THEN CHOOSE i \in 1 .. Len(processes) :
             /\ jobs[processes[i]].id = id
             /\ \A j \in i + 1 .. Len(processes) : jobs[processes[j]].id # id
      ELSE 0

\* the position of the first job with this id, 0 when there is none
FirstWithId(id) ==
    IF \E i \in 1 .. Len(processes) : jobs[processes[i]].id = id
      THEN CHOOSE i \in 1 .. Len(processes) :
             /\ jobs[processes[i]].id = id
             /\ \A j \in 1 .. i - 1 : jobs[processes[j]].id # id
      ELSE 0

\* Processes.find
find(id) == IF FirstWithId(id) = 0 THEN 0 ELSE processes[FirstWithId(id)]

\* a list that takes the new job at its head
Prepended(seq, k) == <<k>> \o seq

\* self.processes.append(Process(...))
Appended(seq, k) == Append(seq, k)

\* what _generate_pid() can give: a number (0) that is no thread's native id,
\* or one (1) that is
GeneratedIds == {0, 1}

\* Processes.add up to time.sleep(.1), with Process.__init__ and Process.run: the
\* job is appended, given the identifier gid that _generate_pid() returns,
\* announced with it ([gid] name), its thread started, and its id set to the
\* thread's native id, which no other live thread has; `limit` jobs are
\* started at most, their generated identifiers being among gids
AddUpTo(limit, gids) ==
    /\ mpc = "idle"
    /\ Len(jobs) < limit
    /\ \E nid \in JobIds, gid \in gids :
         /\ \A k \in 1 .. Len(jobs) : Alive(k) => jobs[k].id # nid
         /\ jobs' = Append(jobs, [id |-> nid, announced |-> gid, owner |-> "user",
                                  status |-> NONE, tpc |-> "init"])
    /\ processes' = Appended(processes, Len(jobs) + 1)
    /\ mpc' = "add"
    /\ doneAtCall' = {}
    /\ listAtCall' = <<>>
    /\ UNCHANGED <<ci, lastOp, arg, ret>>
    /\ UNCHANGED notJobs

add == AddUpTo(MaxJobs, {0})

\* an add that joins the thread it started
AddJoins(k) == Alive(k)

\* whether add waits for job k's thread before it returns: after run() it only
\* sleeps for the grace delay
AddWaitsFor(k) == FALSE

\* time.sleep(.1) is over: add returns
AddReturn ==
    /\ mpc = "add"
    /\ ~AddWaitsFor(Len(jobs))
    /\ mpc' = "idle"
    /\ lastOp' = "add"
    /\ arg' = NONE /\ ret' = NONE
    /\ UNCHANGED <<jobs, processes, ci, doneAtCall, listAtCall>>
    /\ UNCHANGED notJobs

\* Processes.remove; `kept` tells whether the caller keeps what it returns
RemoveWith(kept) ==
    /\ mpc = "idle"
    /\ \E id \in JobIds :
         /\ processes' = IF FirstWithId(id) = 0 THEN processes
                         ELSE RemoveAt(processes, FirstWithId(id))
         /\ arg' = IF kept THEN id ELSE NONE
         /\ ret' = IF kept /\ FirstWithId(id) # 0 THEN processes[FirstWithId(id)] ELSE NONE
    /\ lastOp' = "remove"
    /\ doneAtCall' = {}
    /\ listAtCall' = <<>>
    /\ UNCHANGED <<jobs, mpc, ci>>
    /\ UNCHANGED notJobs

remove == RemoveWith(FALSE)

\* Process._run on the job's thread, statement by statement
JobStep(k, from, to) ==
    /\ jobs[k].tpc = from
    /\ jobs' = [jobs EXCEPT ![k].tpc = to]
    /\ UNCHANGED <<processes, mpc, ci, doneAtCall, listAtCall, lastOp, arg, ret>>
    /\ UNCHANGED notJobs

\* self.command_instance.init()
JobInit == \E k \in 1 .. Len(jobs) : JobStep(k, "init", "run")

\* self.command_instance.run(self.line_args)
JobRun == \E k \in 1 .. Len(jobs) : JobStep(k, "run", "close")

\* self.command_instance.close()
JobClose == \E k \in 1 .. Len(jobs) : JobStep(k, "close", "exit")

\* self.status = self.command_instance.exit()
JobExit ==
    \E k \in 1 .. Len(jobs), s \in HandlerStatuses :
        /\ jobs[k].tpc = "exit"
        /\ jobs' = [jobs EXCEPT ![k].tpc = "stored", ![k].status = ExitValue(s)]
        /\ UNCHANGED <<processes, mpc, ci, doneAtCall, listAtCall, lastOp, arg, ret>>
        /\ UNCHANGED notJobs

\* _run has returned: the thread ends
JobFinish == \E k \in 1 .. Len(jobs) : JobStep(k, "stored", "finished")

\* an exception leaves init(), run() or close(): nothing in _run catches it and
\* the thread ends
JobRaises ==
    \E k \in 1 .. Len(jobs), at \in {"init", "run", "close"} : JobStep(k, at, "finished")

\* Processes.clean: for p in self.processes, on the list itself
CleanCall ==
    /\ mpc = "idle"
    /\ mpc' = "clean"
    /\ ci' = 0
    /\ doneAtCall' = {processes[i] : i \in {j \in 1 .. Len(processes) : ~Alive(processes[j])}}
    /\ listAtCall' = processes
    /\ UNCHANGED <<jobs, processes, lastOp, arg, ret>>
    /\ UNCHANGED notJobs

\* a loop body that removes nothing
CleanBodyNone(seq, i) == seq

\* a loop body that removes the job it examines, alive or not
CleanBodyAll(seq, i) == RemoveAt(seq, i)

\* what one pass of the loop body leaves of the list, the iterator being at
\* position i (1-based) of it
CleanBody(seq, i) == IF Alive(seq[i]) THEN seq ELSE RemoveAt(seq, i)

\* one iteration: the iterator yields the element at its position and moves on;
\* if not p.thread.is_alive(): self.processes.remove(p)
CleanStep ==
    /\ mpc = "clean"
    /\ ci < Len(processes)
    /\ ci' = ci + 1
    /\ processes' = CleanBody(processes, ci + 1)
    /\ UNCHANGED <<jobs, mpc, doneAtCall, listAtCall, lastOp, arg, ret>>
    /\ UNCHANGED notJobs

\* the iterator is past the end of the list: clean returns
CleanReturn ==
    /\ mpc = "clean"
    /\ ci >= Len(processes)
    /\ mpc' = "idle"
    /\ lastOp' = "clean"
    /\ arg' = NONE /\ ret' = NONE
    /\ listAtCall' = <<>>
    /\ UNCHANGED <<jobs, processes, ci, doneAtCall>>
    /\ UNCHANGED notJobs

NextJobs ==
    \/ add \/ AddReturn \/ remove
    \/ JobInit \/ JobRun \/ JobClose \/ JobExit \/ JobFinish \/ JobRaises
    \/ CleanCall \/ CleanStep \/ CleanReturn

\* one constructed handler, left alone
InitLifeDefault ==
    /\ InitLife
    /\ kind = "generic" /\ argShape = "cmd"
    /\ stdout = "sys_stdout" /\ stderr = "sys_stdout" /\ stdin = "sys_stdin"

InitRegistry == InitLifeDefault /\ InitJobs /\ InitRest

SpecJobs == InitRegistry /\ [][NextJobs]_vars

\* C6: each logging helper writes its message if and only if log_level is at or
\* below the helper's severity.
C6_Original ==
    lastLog.helper # "none" => (lastLog.wrote <=> lastLog.threshold <= lastLog.severity)

\* C7: every call of critical(), fatal() or error() leaves the status at the
\* error code, emitted or not.
C7_Original ==
    lastLog.helper \in {"critical", "fatal", "error"} => status = STATUS_ERR

\* C8: the process's own standard streams are never closed, and once the
\* lifecycle has ended every other stream bound to the handler is closed.
C8_Original ==
    /\ closed \cap SysStreams = {}
    /\ (pc = "done" => ({stdout, stderr, stdin} \ SysStreams) \subseteq closed)

(***************************************************************************)
(* Properties of the job registry                                          *)
(***************************************************************************)
InList(k) == \E i \in 1 .. Len(list) : list[i] = k

\* C9: once clean() has returned, list() holds no job whose thread had
\* finished (here: had finished already when clean() was called).
C9_Original ==
    mpc = "idle" /\ lastOp = "clean" => \A k \in doneAtCall : ~InList(k)

\* C10: a job whose thread is alive has no status.
C10_Original ==
    \A k \in 1 .. Len(jobs) : Alive(k) => jobs[k].status = NONE

\* C11: a job whose thread has finished has a final status, also when its
\* handler raised: the exception became the error status and did not end the
\* thread with the status absent.
C11_Original ==
    \A k \in 1 .. Len(jobs) : ~Alive(k) => jobs[k].status # NONE

\* the stage of the foreground flow a position of Process._run stands for
JobStage(tpc) == IF tpc = "stored" THEN "return" ELSE tpc

\* C12: a job's thread goes through the stages in the order of the foreground
\* flow: from each stage to the one DriverNext gives (setup after init), the
\* value of exit() being stored at the end.
C12_Original ==
    [][\A k \in 1 .. Len(jobs) :
         (jobs'[k].tpc # jobs[k].tpc /\ jobs'[k].tpc # "finished")
            => \E abort \in BOOLEAN :
                 JobStage(jobs'[k].tpc) = DriverNext(jobs[k].tpc, abort)]_vars

\* C13: add never waits for the job's thread: whatever the thread does, also
\* inside a run() that does not end, add can return once the job is started,
\* and the main flow goes on.
C13_AddReturns == mpc = "add" => ENABLED AddReturn

C13_Witness ==
    /\ Len(jobs) = 2 /\ mpc = "idle" /\ lastOp = "add"
    /\ jobs[1].tpc = "run" /\ jobs[2].tpc = "run"

(***************************************************************************)
(* The lexer: transform.string_to_list, the tokenize of the                *)
(* specification's section 4.1.  A line and a token are sequences of       *)
(* characters.                                                             *)
(***************************************************************************)
\* the longest line read
MaxLen == 4

UpperCase == <<"A", "B", "C", "D", "E", "F", "G", "H", "I", "J", "K", "L", "M",
               "N", "O", "P", "Q", "R", "S", "T", "U", "V", "W", "X", "Y", "Z">>
LowerCase == <<"a", "b", "c", "d", "e", "f", "g", "h", "i", "j", "k", "l", "m",
               "n", "o", "p", "q", "r", "s", "t", "u", "v", "w", "x", "y", "z">>
Digits == {"0", "1", "2", "3", "4", "5", "6", "7", "8", "9"}

\* the characters the lines are made of
Alphabet == {"L", "s", " ", ";", "|", ">", "<", "2"}
Lines == UNION {[1 .. n -> Alphabet] : n \in 0 .. MaxLen}

IsSpace(c) == c \in {" ", "\t"}
IsDigit(c) == c \in Digits
IsUpper(c) == \E i \in 1 .. Len(UpperCase) : UpperCase[i] = c

IsLower(c) == \E i \in 1 .. Len(LowerCase) : LowerCase[i] = c

\* str.swapcase on one character
SwapCase(c) ==
    IF IsUpper(c)
      THEN LowerCase[CHOOSE i \in 1 .. Len(UpperCase) : UpperCase[i] = c]
    ELSE IF IsLower(c)
      THEN UpperCase[CHOOSE i \in 1 .. Len(LowerCase) : LowerCase[i] = c]
    ELSE c

\* str.lower on one character
Lower(c) ==
    IF IsUpper(c)
      THEN LowerCase[CHOOSE i \in 1 .. Len(UpperCase) : UpperCase[i] = c]
      ELSE c

LowerWord(w) == [i \in 1 .. Len(w) |-> Lower(w[i])]

\* every element lower-cased
LowerAll(tokens) == [j \in 1 .. Len(tokens) |-> LowerWord(tokens[j])]

\* element 0 lower-cased, the others as they are
LowerFirst(tokens) ==
    [j \in 1 .. Len(tokens) |-> IF j = 1 THEN LowerWord(tokens[j]) ELSE tokens[j]]

\* an operator match that takes one character only
OpLenShortest(s, i) ==
    IF s[i] \in {";", "|"} THEN 1
    ELSE IF i < Len(s) /\ s[i + 1] = s[i] /\ s[i] \in {">", "<"} THEN 1
    ELSE IF i < Len(s) /\ IsDigit(s[i]) /\ s[i + 1] = ">" THEN 1
    ELSE 0

\* the length of the longest known operator that starts at position i of s:
\* >>, <<, a decimal digit immediately followed by >, |, ; and 0 when none does
OpLen(s, i) ==
    IF s[i] \in {";", "|"} THEN 1
    ELSE IF i < Len(s) /\ s[i + 1] = s[i] /\ s[i] \in {">", "<"} THEN 2
    ELSE IF i < Len(s) /\ IsDigit(s[i]) /\ s[i + 1] = ">" THEN 2
    ELSE 0

\* a flush that emits the buffer also when it is empty
FlushAlways(acc, buf) == Append(acc, buf)

\* the word buffer is flushed as a token, dropped if empty
Flush(acc, buf) == IF buf = <<>> THEN acc ELSE Append(acc, buf)

\* an operator that stays in the word it touches
EmittedMerged(acc, buf, op) == Append(acc, buf \o op)

\* an operator flushes the buffer and is emitted as a single token
Emitted(acc, buf, op) == Append(Flush(acc, buf), op)

\* the scan from left to right, at position i with word buffer buf and the
\* tokens acc emitted so far
RECURSIVE Scan(_, _, _, _)
Scan(s, i, buf, acc) ==
    IF i > Len(s) THEN Flush(acc, buf)
    ELSE IF IsSpace(s[i]) THEN Scan(s, i + 1, <<>>, Flush(acc, buf))
    ELSE IF OpLen(s, i) > 0
      THEN Scan(s, i + OpLen(s, i), <<>>,
                Emitted(acc, buf, SubSeq(s, i, i + OpLen(s, i) - 1)))
    ELSE Scan(s, i + 1, Append(buf, s[i]), acc)

\* transform.string_to_list
string_to_list(s) == LowerFirst(Scan(s, 1, <<>>, <<>>))

\* a line is given to the lexer
InitLex ==
    /\ InitLifeDefault /\ InitJobs
    /\ snapshot = <<>> /\ shared = FALSE /\ cmd = <<>> /\ lastRead = "none"
    /\ manageCalls = <<>>
    /\ raw \in Lines /\ out = <<>> /\ lexed = FALSE
    /\ groups = <<>> /\ splitDone = FALSE
    /\ InitStore /\ InitDispatcher /\ InitDirs

Tokenize ==
    /\ ~lexed
    /\ out' = string_to_list(raw)
    /\ lexed' = TRUE
    /\ UNCHANGED <<lifeVars, jobVars, viewVars, readVars, raw, groups, splitDone,
                   storeVars, dispVars, dirVars>>

\* a token that ends a command or joins two
IsSeparatorOrPipe(t) == t \in {<<";">>, <<"|">>}

\* the token that delimits the commands of a line
IsSeparator(t) == t = <<";">>

\* a group is closed and kept also when it has no token
ClosedAlways(acc, grp) == Append(acc, grp)

\* a group is closed: it is discarded when it is empty
Closed(acc, grp) == IF grp = <<>> THEN acc ELSE Append(acc, grp)

\* the token stream partitioned into groups delimited by ; tokens, the
\* delimiter itself discarded; grp is the group being filled
RECURSIVE Partition(_, _, _)
Partition(tokens, grp, acc) ==
    IF tokens = <<>> THEN Closed(acc, grp)
    ELSE IF IsSeparator(Head(tokens)) THEN Partition(Tail(tokens), <<>>, Closed(acc, grp))
    ELSE Partition(Tail(tokens), Append(grp, Head(tokens)), acc)

\* a split that lower-cases element 0 of each group
SplitLowerEach(s) ==
    LET gs == Partition(string_to_list(s), <<>>, <<>>)
    IN [g \in 1 .. Len(gs) |-> LowerFirst(gs[g])]

\* transform.split_commands: the line is tokenized once, then partitioned
split_commands(s) == Partition(string_to_list(s), <<>>, <<>>)

Split ==
    /\ ~splitDone
    /\ groups' = split_commands(raw)
    /\ splitDone' = TRUE
    /\ UNCHANGED <<lifeVars, jobVars, viewVars, readVars, raw, out, lexed, storeVars,
                   dispVars, dirVars>>

NextLex == Tokenize \/ Split

SpecLex == InitLex /\ [][NextLex]_vars

\* the characters of the tokens, in order
RECURSIVE Flatten(_)
Flatten(tokens) ==
    IF tokens = <<>> THEN <<>> ELSE Head(tokens) \o Flatten(Tail(tokens))

NotSpace(c) == ~IsSpace(c)
HasSpace(s) == \E i \in 1 .. Len(s) : IsSpace(s[i])

\* C17: the tokens are the line's characters without the whitespace, those of
\* element 0 lower-cased and all the others exactly as given.
C17_CaseOfTokens ==
    lexed =>
        LET given == SelectSeq(raw, NotSpace)
            got == Flatten(out)
        IN /\ Len(got) = Len(given)
           /\ \A i \in 1 .. Len(got) :
                got[i] = IF i <= Len(out[1]) THEN Lower(given[i]) ELSE given[i]

C17_Witness ==
    /\ lexed /\ Len(out) = 2
    /\ raw = <<"L", "s", " ", "L">>
    /\ out = << <<"l", "s">>, <<"L">> >>

\* a token that is one of the operators
IsOperator(t) ==
    \/ t \in {<<";">>, <<"|">>, <<">", ">">>, <<"<", "<">>}
    \/ Len(t) = 2 /\ IsDigit(t[1]) /\ t[2] = ">"

\* a token with an operator somewhere in it
HasOperator(t) ==
    \E i \in 1 .. Len(t) :
        \/ t[i] \in {";", "|"}
        \/ /\ i < Len(t)
           /\ \/ t[i] = ">" /\ t[i + 1] = ">"
              \/ t[i] = "<" /\ t[i + 1] = "<"
              \/ IsDigit(t[i]) /\ t[i + 1] = ">"

\* C18: an operator is a token of its own: a token with an operator in it is
\* that operator and nothing more, with or without whitespace around it.
C18_OperatorsAlone ==
    lexed => \A j \in 1 .. Len(out) : HasOperator(out[j]) => IsOperator(out[j])

C18_Witness ==
    /\ lexed /\ ~HasSpace(raw) /\ Len(raw) = MaxLen
    /\ Len(out) = 3 /\ out[2] = <<"2", ">">>
    /\ ~IsOperator(out[1]) /\ ~IsOperator(out[3])

Kept(s, i) ==
    \/ ~IsSpace(s[i])
    \/ /\ i > 1 /\ ~IsSpace(s[i - 1])
       /\ \E j \in i + 1 .. Len(s) : ~IsSpace(s[j])

RECURSIVE KeptFrom(_, _)
KeptFrom(s, i) ==
    IF i > Len(s) THEN <<>>
    ELSE (IF Kept(s, i) THEN <<s[i]>> ELSE <<>>) \o KeptFrom(s, i + 1)

Normalized(s) == KeptFrom(s, 1)

\* C20: whitespace only separates: no token is empty, none has whitespace in
\* it, and the line gives the tokens it gives with its whitespace trimmed and
\* its runs of whitespace made single.
C20_WhitespaceSeparates ==
    lexed =>
        /\ \A j \in 1 .. Len(out) : out[j] # <<>> /\ ~HasSpace(out[j])
        /\ out = string_to_list(Normalized(raw))

C20_Witness ==
    /\ lexed /\ Len(raw) = MaxLen /\ Len(out) = 1
    /\ IsSpace(raw[1]) /\ IsSpace(raw[Len(raw)]) /\ IsSpace(raw[Len(raw) - 1])

(***************************************************************************)
(* The session: run() of main.py reads a line, and the commands it gives   *)
(* to the registry add, remove, clean and list jobs.  A job's thread is    *)
(* taken from its start to its end in one step.                            *)
(***************************************************************************)
\* the jobs of a session
MaxSessionJobs == MaxJobs + 1

\* the lines typed at the prompt
SessionLines ==
    {<<>>, <<" ">>, <<"L", "s">>, <<"E", "x", "i", "t">>, <<"c", "l", "e", "a", "r">>,
     <<"c", "d">>, <<"c", "d", " ", "L">>, <<"l", "s", ";", "c", "d">>}

\* Process._run as a whole: it ends by an exception, the status absent, or by
\* storing what exit() gives
JobEnds ==
    \E k \in 1 .. Len(jobs), s \in {NONE, ExitValue(NONE)} :
        /\ jobs[k].tpc = "init"
        /\ jobs' = [jobs EXCEPT ![k].tpc = "finished", ![k].status = s]
        /\ UNCHANGED <<processes, mpc, ci, doneAtCall, listAtCall, lastOp, arg, ret>>
        /\ UNCHANGED notJobs

SessionAdd == AddUpTo(MaxSessionJobs, {0})

\* a list() that hands out the registry's own list
ListItself(seq) == [items |-> seq, own |-> TRUE]

\* return self.processes.copy(): a new list of the same jobs
ListCopy(seq) == [items |-> seq, own |-> FALSE]

\* a caller calls Processes.list and holds what it returns
ListCall ==
    /\ mpc = "idle"
    /\ mpc' = "list"
    /\ snapshot' = ListCopy(list).items
    /\ shared' = ListCopy(list).own
    /\ lastOp' = "list"
    /\ arg' = NONE /\ ret' = NONE
    /\ UNCHANGED <<jobs, processes, ci, doneAtCall, listAtCall>>
    /\ UNCHANGED <<lifeVars, readVars, lexVars, storeVars, dispVars, dirVars>>

\* what a caller can make of a list that has elements: the first removed, the
\* order reversed, the first appended once more
Mutations(seq) ==
    IF seq = <<>> THEN {}
    ELSE {Tail(seq), [i \in 1 .. Len(seq) |-> seq[Len(seq) + 1 - i]], Append(seq, Head(seq))}

\* the caller changes the list it holds; the registry's list changes with it
\* when it is the same object
CallerMutates ==
    /\ mpc = "list"
    /\ snapshot = list
    /\ Len(snapshot) <= Len(jobs)
    /\ \E m \in Mutations(snapshot) \ {snapshot} :
         /\ snapshot' = m
         /\ processes' = IF shared THEN m ELSE processes
    /\ UNCHANGED <<jobs, mpc, ci, doneAtCall, listAtCall, lastOp, arg, ret, shared>>
    /\ UNCHANGED <<lifeVars, readVars, lexVars, storeVars, dispVars, dirVars>>

\* the caller lets go of the list
CallerDone ==
    /\ mpc = "list"
    /\ mpc' = "idle"
    /\ snapshot' = <<>>
    /\ shared' = FALSE
    /\ UNCHANGED <<jobs, processes, ci, doneAtCall, listAtCall, lastOp, arg, ret>>
    /\ UNCHANGED <<lifeVars, readVars, lexVars, storeVars, dispVars, dirVars>>

\* listen(): the read ends `how` and gives the tokens of `line`
Listen(how, line) ==
    /\ mpc = "idle"
    /\ mpc' = "dispatch"
    /\ cmd' = string_to_list(line)
    /\ lastRead' = how
    /\ manageCalls' = <<>>
    /\ UNCHANGED <<jobs, processes, ci, doneAtCall, listAtCall, lastOp, arg, ret>>
    /\ UNCHANGED <<lifeVars, viewVars, lexVars, storeVars, dispVars, dirVars>>

\* command = input(); return utils.transform.string_to_list(command)
ListenLine == \E line \in SessionLines : Listen("line", line)

\* except KeyboardInterrupt: return utils.transform.string_to_list("")
ListenBreak == Listen("break", <<>>)

\* except EOFError: return utils.transform.string_to_list("")
ListenEOF == Listen("eof", <<>>)

\* a break signal inside listen()'s own handler leaves listen(); run() catches
\* it and continues with the next prompt, cmd not assigned
RunCatchesBreak ==
    /\ mpc = "idle"
    /\ lastRead' = "escaped"
    /\ UNCHANGED <<cmd, manageCalls, jobVars, lifeVars, viewVars, lexVars, storeVars,
                   dispVars, dirVars>>

\* the threads are daemon threads: they end when the process does
Killed(js) == [k \in 1 .. Len(js) |-> [js[k] EXCEPT !.tpc = "finished"]]

EXIT == <<"e", "x", "i", "t">>
CLEAR == <<"c", "l", "e", "a", "r">>
CD == <<"c", "d">>

\* a loop that knows exit only and gives every other line to the manager
RouteExitOnly(v) == IF v[1] = EXIT THEN "exit" ELSE "manage"

\* the branch of run() a vector that has elements takes: if cmd[0] == "exit",
\* if cmd[0] == "clear", elif cmd[0] == "cd", else
Route(v) ==
    IF v[1] = EXIT THEN "exit"
    ELSE IF v[1] = CLEAR THEN "clear"
    ELSE IF v[1] = CD THEN "cd"
    ELSE "manage"

\* INFO.exit = True; sys.exit(0): the process ends, and its daemon threads
RunExit ==
    /\ mpc = "dispatch"
    /\ cmd # <<>> /\ Route(cmd) = "exit"
    /\ mpc' = "exited"
    /\ jobs' = Killed(jobs)
    /\ UNCHANGED <<processes, ci, doneAtCall, listAtCall, lastOp, arg, ret>>
    /\ UNCHANGED notJobs

\* os.system("cls || clear"), or the cd branch, whose change of directory is
\* followed by CdTo and CdHome and not here: the loop comes back to the
\* prompt, unless an exception of cd that nothing catches ends the session
RunBuiltin ==
    /\ mpc = "dispatch"
    /\ cmd # <<>> /\ Route(cmd) \in {"clear", "cd"}
    /\ \E ends \in (IF Route(cmd) = "cd" THEN BOOLEAN ELSE {FALSE}) :
         /\ mpc' = IF ends THEN "exited" ELSE "idle"
         /\ jobs' = IF ends THEN Killed(jobs) ELSE jobs
    /\ UNCHANGED <<processes, ci, doneAtCall, listAtCall, lastOp, arg, ret>>
    /\ UNCHANGED notJobs

\* manager.manage(cmd, INFO), then the loop comes back to the prompt
RunManage ==
    /\ mpc = "dispatch"
    /\ cmd # <<>> /\ Route(cmd) = "manage"
    /\ mpc' = "idle"
    /\ manageCalls' = Append(manageCalls, cmd)
    /\ UNCHANGED <<jobs, processes, ci, doneAtCall, listAtCall, lastOp, arg, ret>>
    /\ UNCHANGED <<cmd, lastRead, lifeVars, viewVars, lexVars, storeVars, dispVars, dirVars>>

\* if cmd[0] == "exit" on the empty vector: IndexError leaves run(), nothing
\* between it and the exit of the process catches it for the loop to go on
RunIndexError ==
    /\ mpc = "dispatch"
    /\ cmd = <<>>
    /\ mpc' = "exited"
    /\ jobs' = Killed(jobs)
    /\ UNCHANGED <<processes, ci, doneAtCall, listAtCall, lastOp, arg, ret>>
    /\ UNCHANGED notJobs

\* the commands that act on the registry, and the jobs' threads
NextList ==
    \/ SessionAdd \/ AddReturn \/ remove
    \/ JobEnds
    \/ CleanCall \/ CleanStep \/ CleanReturn
    \/ ListCall \/ CallerMutates \/ CallerDone

SpecList == InitRegistry /\ [][NextList]_vars

\* the loop of run(), jobs being started and their threads ending meanwhile
NextSession ==
    \/ add \/ AddReturn
    \/ JobEnds
    \/ ListenLine \/ ListenBreak \/ ListenEOF \/ RunCatchesBreak
    \/ RunExit \/ RunBuiltin \/ RunManage \/ RunIndexError

SpecSession == InitRegistry /\ [][NextSession]_vars

\* C14: what list() returns is a copy: when its caller removes from it,
\* reorders it or appends to it, the registry's own list stays as it is.
C14_ListIsCopy ==
    [][(mpc = "list" /\ mpc' = "list" /\ snapshot' # snapshot)
          => processes' = processes]_vars

C14_Witness ==
    /\ mpc = "list"
    /\ processes = <<1, 2, 3>>
    /\ snapshot = <<3, 2, 1>>

\* a sequence of jobs in the order in which they were added
InsertionOrdered(seq) ==
    \A i, j \in 1 .. Len(seq) : i < j => seq[i] < seq[j]

\* C15: whatever add, remove and clean have done, list() gives the jobs still
\* registered in the order in which they were added.
C15_InsertionOrder == InsertionOrdered(list)

C15_Witness ==
    /\ mpc = "idle" /\ lastOp = "remove"
    /\ Len(jobs) = 3
    /\ list = <<1, 3>>

\* C16: a read ended by the break signal or by the end of input costs no job
\* anything: the main flow's step that follows it stops no job, removes none
\* and changes no status.
C16_Original ==
    [][(lastRead \in {"break", "eof"} /\ mpc = "dispatch" /\ mpc' # "dispatch")
          => (jobs' = jobs /\ processes' = processes)]_vars

NotSemicolon(t) == t # <<";">>

\* C21: no group of splitCommands is empty and none holds a ; token, however
\* many ; the line has at its start, at its end or next to each other.
C21_NoEmptyGroup ==
    splitDone =>
        \A g \in 1 .. Len(groups) :
            /\ groups[g] # <<>>
            /\ \A j \in 1 .. Len(groups[g]) : groups[g][j] # <<";">>

C21_Witness ==
    /\ splitDone
    /\ raw = <<";", "s", ";", ";">>
    /\ groups = << << <<"s">> >> >>

RECURSIVE HeadPositions(_, _)
HeadPositions(gs, before) ==
    IF gs = <<>> THEN {}
    ELSE {before + 1} \cup HeadPositions(Tail(gs), before + Len(Head(gs)))

\* C23: the groups, taken in order, are the tokens of tokenize without the ;
\* tokens, none lost, doubled or moved, equal but for the letter case of a
\* group's element 0; tokenize keeps each ; as a token, and only a ; starts a
\* new group.
C23_Partition ==
    (splitDone /\ lexed) =>
        LET kept == SelectSeq(out, NotSemicolon)
            flat == Flatten(groups)
        IN /\ Len(flat) = Len(kept)
           /\ \A i \in 1 .. Len(flat) :
                \/ flat[i] = kept[i]
                \/ /\ i \in HeadPositions(groups, 0)
                   /\ LowerWord(flat[i]) = LowerWord(kept[i])
           /\ Len(groups) <= (Len(out) - Len(kept)) + 1
           /\ Len(SelectSeq(raw, LAMBDA c : c = ";")) = Len(out) - Len(kept)

C23_Witness ==
    /\ splitDone /\ lexed
    /\ raw = <<"s", "|", "s", ";">>
    /\ out = << <<"s">>, <<"|">>, <<"s">>, <<";">> >>
    /\ groups = << << <<"s">>, <<"|">>, <<"s">> >> >>

\* a single word: no whitespace and no operator character
IsWord(s) ==
    /\ s # <<>>
    /\ \A i \in 1 .. Len(s) : ~IsSpace(s[i]) /\ s[i] \notin {";", "|", ">", "<"}

\* C24: a single word tokenizes to the one-element vector of the word
\* lower-cased, and tokenizing that element gives the same vector again.
C24_SingleWord ==
    (lexed /\ IsWord(raw)) =>
        /\ Len(out) = 1 /\ Len(out[1]) = Len(raw)
        /\ \A i \in 1 .. Len(raw) :
             /\ ~IsUpper(out[1][i])
             /\ out[1][i] = (IF IsUpper(raw[i]) THEN Lower(raw[i]) ELSE raw[i])
        /\ string_to_list(out[1]) = out

C24_Witness ==
    /\ lexed
    /\ raw = <<"L", "s", "2", "L">>
    /\ out = << <<"l", "s", "2", "l">> >>

(***************************************************************************)
(* The Variable Store: info.variables, with exists, get, set and add, and  *)
(* the export command that writes to it.                                   *)
(***************************************************************************)
\* the names and the values given to the store
Names == {"$a", "$A"}
Values == {"x", "y", "\"x\""}

\* value.removeprefix("\"").removesuffix("\"")
Unquoted(v) == IF v = "\"x\"" THEN "x" ELSE v

\* an exists that finds nothing
ExistsNever(st, name) == FALSE

\* exists(name): an entry has exactly this name
Exists(st, name) == \E i \in 1 .. Len(st) : st[i].name = name

\* the position of the entry of this name
EntryOf(st, name) == CHOOSE i \in 1 .. Len(st) : st[i].name = name

\* get(name): the value of the variable, absent when there is none
Get(st, name) ==
    IF Exists(st, name)
      THEN [found |-> TRUE, value |-> st[EntryOf(st, name)].value]
      ELSE [found |-> FALSE, value |-> ""]

\* add(name, value): requires the key absent; inserts
Added(st, name, v) ==
    IF Exists(st, name) THEN st ELSE Append(st, [name |-> name, value |-> v])

\* set(name, value): requires an existing key; overwrites
Set(st, name, v) ==
    IF Exists(st, name) THEN [st EXCEPT ![EntryOf(st, name)].value = v] ELSE st

StoreOp(op, name, v, ok, st) ==
    /\ store' = st
    /\ lastStore' = [op |-> op, name |-> name, value |-> v, ok |-> ok]
    /\ UNCHANGED <<lifeVars, jobVars, viewVars, readVars, lexVars, dispVars, dirVars>>

VarAdd ==
    \E name \in Names, v \in Values :
        StoreOp("add", name, v, ~Exists(store, name), Added(store, name, v))

VarSet ==
    \E name \in Names, v \in Values :
        StoreOp("set", name, v, Exists(store, name), Set(store, name, v))

VarGet ==
    \E name \in Names :
        StoreOp("get", name, Get(store, name).value, Get(store, name).found, store)

\* export.Command.set_variable: set when the variable exists, add otherwise,
\* the value without the quotes around it
Export ==
    \E name \in Names, v \in Values :
        StoreOp("export", name, Unquoted(v), TRUE,
                IF Exists(store, name) THEN Set(store, name, Unquoted(v))
                ELSE Added(store, name, Unquoted(v)))

NextStore == VarAdd \/ VarSet \/ VarGet \/ Export

SpecStore == InitRegistry /\ [][NextStore]_vars

\* C25: a value added is the value get gives; an add on a name that exists
\* and a set on a name that does not are rejected and leave the store as it
\* was; a name has one entry at most, names that differ in case being two.
C25_StoreContract ==
    /\ [](/\ \A i, j \in 1 .. Len(store) : store[i].name = store[j].name => i = j
          /\ (lastStore.op = "add" /\ lastStore.ok)
                => Get(store, lastStore.name) = [found |-> TRUE, value |-> lastStore.value]
          /\ (lastStore.op = "set" /\ ~lastStore.ok) => ~Get(store, lastStore.name).found)
    /\ [][(lastStore'.op \in {"add", "set"} /\ ~lastStore'.ok) => store' = store]_vars
    /\ [][(lastStore'.op = "add" /\ lastStore' # lastStore)
            => (lastStore'.ok <=> ~\E i \in 1 .. Len(store) : store[i].name = lastStore'.name)]_vars

C25_Witness ==
    /\ store = <<[name |-> "$a", value |-> "x"], [name |-> "$A", value |-> "y"]>>
    /\ lastStore = [op |-> "add", name |-> "$a", value |-> "y", ok |-> FALSE]

(***************************************************************************)
(* The dispatcher: manager.manage, given a command group, takes its        *)
(* argument vectors one after the other; a vector whose command name is    *)
(* registered gets a handler that is run through the execution flow in the *)
(* foreground.                                                             *)
(***************************************************************************)
\* the argument vectors of a command group
MaxGroup == 3

\* a vector's command name is registered or it is not
VectorKinds == {"known", "unknown"}
CommandGroups == UNION {[1 .. n -> VectorKinds] : n \in 1 .. MaxGroup}

\* a dispatcher that gives up the group at a command that is not found
StopsAtMiss(outcome) == IF outcome = "notfound" THEN "finished" ELSE "next"

\* where the dispatcher stands after a vector, whatever became of it: at the
\* next vector of the group
AfterVector(outcome) == "next"

\* a dispatcher that goes on as soon as the handler is constructed
HandlerStarted(at) == TRUE

\* the flow of the handler has returned to the dispatcher, by exit(), by
\* fail_safe(), or by an exception that nothing in the flow caught
HandlerReturned(at) == at \in {"done", "escaped"}

\* no handler constructed yet
NoHandler ==
    /\ kind = "generic" /\ argShape = "cmd"
    /\ status = NONE /\ hasParser = FALSE /\ exit_execution = FALSE
    /\ log_level = NOTSET
    /\ stdout = "sys_stdout" /\ stderr = "sys_stdout" /\ stdin = "sys_stdin"
    /\ closed = {} /\ p = NONE
    /\ pc = "none" /\ cur = "none" /\ result = NONE
    /\ calls = <<>> /\ ended = 0
    /\ abortPath = FALSE /\ setupAborted = FALSE /\ raisedIn = "none"
    /\ nHelper = 0 /\ lastLog = NoLog

\* a command group is given to the dispatcher
InitDispatch ==
    /\ NoHandler /\ InitJobs /\ InitStore /\ InitDirs
    /\ snapshot = <<>> /\ shared = FALSE
    /\ cmd = <<>> /\ lastRead = "none" /\ manageCalls = <<>>
    /\ raw = <<>> /\ out = <<>> /\ lexed = FALSE
    /\ groups = <<>> /\ splitDone = FALSE
    /\ group \in CommandGroups /\ idx = 0 /\ dpc = "next" /\ events = <<>>

\* the command name is not in the handler table: "command not found"
DispatchMiss ==
    /\ dpc = "next" /\ idx < Len(group)
    /\ group[idx + 1] = "unknown"
    /\ idx' = idx + 1
    /\ events' = Append(events, "notfound")
    /\ dpc' = AfterVector("notfound")
    /\ UNCHANGED <<group, lifeVars, jobVars, viewVars, readVars, lexVars, storeVars,
                   dirVars>>

\* the command name is in the table: the handler is constructed, bound to the
\* streams of the session (CommandInterface.__init__)
DispatchHit ==
    /\ dpc = "next" /\ idx < Len(group)
    /\ group[idx + 1] = "known"
    /\ idx' = idx + 1
    /\ dpc' = "handler"
    /\ kind' = "generic" /\ argShape' = "cmd"
    /\ status' = NONE /\ hasParser' = FALSE /\ exit_execution' = FALSE
    /\ log_level' = NOTSET
    /\ stdout' = "sys_stdout" /\ stderr' = "sys_stdout" /\ stdin' = "sys_stdin"
    /\ closed' = {} /\ p' = NONE
    /\ pc' = "ready" /\ cur' = "none" /\ result' = NONE
    /\ calls' = <<>> /\ ended' = 0
    /\ abortPath' = FALSE /\ setupAborted' = FALSE /\ raisedIn' = "none"
    /\ nHelper' = 0 /\ lastLog' = NoLog
    /\ UNCHANGED <<group, events, jobVars, viewVars, readVars, lexVars, storeVars, dirVars>>

\* the handler's flow is over: the dispatcher has its status
DispatchReturn ==
    /\ dpc = "handler"
    /\ HandlerReturned(pc)
    /\ events' = Append(events, IF result = STATUS_OK THEN "ok" ELSE "failed")
    /\ dpc' = AfterVector("returned")
    /\ UNCHANGED <<group, idx, lifeVars, jobVars, viewVars, readVars, lexVars,
                   storeVars, dirVars>>

\* no vector is left
DispatchEnd ==
    /\ dpc = "next" /\ idx = Len(group)
    /\ dpc' = "finished"
    /\ UNCHANGED <<group, idx, events, lifeVars, jobVars, viewVars, readVars, lexVars,
                   storeVars, dirVars>>

NextDispatch ==
    \/ DispatchMiss \/ DispatchHit \/ DispatchReturn \/ DispatchEnd
    \/ CallInit \/ InitReturns
    \/ CallSetup \/ SetupReturns
    \/ CallRun \/ RunReturns
    \/ critical \/ fatal \/ error \/ warning \/ info \/ debug
    \/ CallClose \/ CloseReturns
    \/ CallExit \/ ExitReturns
    \/ StageRaises \/ CallFailSafe \/ FailSafeReturns

SpecDispatch == InitDispatch /\ [][NextDispatch]_vars

\* a handler's flow is under way
InFlow == pc \in {"ready", "running", "raised"}

\* C26: a vector whose command is not found has no stage of any handler
\* invoked for it, and neither it nor a handler that failed keeps the
\* dispatcher from the vectors behind it: the group is finished only with
\* every vector attempted.
C26_FailuresDoNotStop ==
    /\ [](dpc = "finished" =>
            /\ Len(events) = Len(group)
            /\ \A i \in 1 .. Len(group) :
                 (events[i] = "notfound") <=> (group[i] = "unknown"))
    /\ []((idx > 0 /\ group[idx] = "unknown") => ~InFlow)
    /\ [][(idx' # idx /\ group[idx'] = "unknown")
            => (calls' = calls /\ ended' = ended /\ pc' = pc)]_vars

C26_Witness ==
    /\ dpc = "finished"
    /\ group = <<"unknown", "known", "known">>
    /\ events = <<"notfound", "failed", "ok">>

\* C27: the vectors are taken from left to right, one at a time, and the
\* flow of a handler is over, exit() or fail_safe() having returned, before
\* the dispatcher takes the next vector: stages are invoked for the vector
\* at hand only.
C27_OneAfterTheOther ==
    /\ [][idx' \in {idx, idx + 1} /\ (idx' # idx => ~InFlow)]_vars
    /\ [](InFlow => (dpc = "handler" /\ Len(events) = idx - 1))
    /\ [][(Len(events') > Len(events) /\ events'[Len(events')] # "notfound")
            => (pc = "done" /\ cur \in {"exit", "fail_safe"})]_vars

C27_Witness ==
    /\ group = <<"known", "known">>
    /\ idx = 2 /\ dpc = "handler" /\ events = <<"ok">>
    /\ pc = "running" /\ cur = "init" /\ calls = <<"init">>

\* C28: exit ends the session, cd and clear are handled by the loop, and for
\* none of the three the manager is called; every other line that has
\* elements is given to it once, as tokenized.
C28_BuiltinsBypass ==
    /\ [][(mpc = "dispatch" /\ mpc' # "dispatch" /\ cmd # <<>>) =>
            /\ manageCalls' = (IF cmd[1] \in {EXIT, CD, CLEAR} THEN <<>> ELSE <<cmd>>)
            /\ (cmd[1] = EXIT => mpc' = "exited")
            /\ (mpc' = "exited" => cmd[1] \in {EXIT, CD})]_vars
    /\ [](Len(manageCalls) <= 1)
    /\ [][manageCalls' # manageCalls => (mpc = "dispatch" \/ mpc' = "dispatch")]_vars

C28_Witness ==
    /\ mpc = "idle" /\ lastRead = "line"
    /\ cmd = << <<"l", "s">>, <<";">>, <<"c", "d">> >>
    /\ manageCalls = <<cmd>>

(***************************************************************************)
(* The identifiers of the jobs: add, find and remove with callers that     *)
(* keep what find and remove return.                                       *)
(***************************************************************************)
\* add, _generate_pid() giving any identifier it can
AddAnnouncing == AddUpTo(MaxJobs, GeneratedIds)

\* a caller calls Processes.find and keeps the job it returns
FindCall ==
    /\ mpc = "idle"
    /\ \E id \in {0} \cup JobIds :
         /\ arg' = id
         /\ ret' = IF find(id) = 0 THEN NONE ELSE find(id)
    /\ lastOp' = "find"
    /\ UNCHANGED <<jobs, processes, mpc, ci, doneAtCall, listAtCall>>
    /\ UNCHANGED notJobs

RemoveCall == RemoveWith(TRUE)

NextIds == AddAnnouncing \/ AddReturn \/ JobEnds \/ FindCall \/ RemoveCall

SpecIds == InitRegistry /\ [][NextIds]_vars

\* the jobs of the registry that have this identifier
WithId(id) == {processes[i] : i \in {j \in 1 .. Len(processes) : jobs[processes[j]].id = id}}

\* C29: once add has returned, the identifier it announced finds the job it
\* added, unless another job of the registry has that identifier.
C29_Original ==
    (mpc = "idle" /\ lastOp = "add") =>
        LET new == Len(jobs)
        IN (InList(new) /\ WithId(jobs[new].announced) \subseteq {new})
              => find(jobs[new].announced) = new

NotJob(k) == k # ret'

\* C30: find(id) gives the job of the registry added first among those with
\* that identifier, remove(id) gives it and takes it, and it alone, out of
\* the registry; when no job has the identifier both give nothing and the
\* registry stays as it is.
C30_EarliestWithId ==
    [][(jobs' = jobs /\ lastOp' \in {"find", "remove"} /\ arg' # NONE) =>
          IF WithId(arg') = {}
            THEN ret' = NONE /\ processes' = processes
            ELSE /\ ret' \in WithId(arg')
                 /\ \A k \in WithId(arg') : ret' <= k
                 /\ processes' = IF lastOp' = "remove"
                                   THEN SelectSeq(processes, NotJob)
                                   ELSE processes]_vars

C30_Witness ==
    /\ lastOp = "remove" /\ arg = 1 /\ ret = 1
    /\ Len(jobs) = 2 /\ jobs[1].id = 1 /\ jobs[2].id = 1
    /\ processes = <<2>>

(***************************************************************************)
(* Properties of clean() and remove()                                      *)
(***************************************************************************)
\* a step of clean(): its call, one iteration of its loop, or its return
CleanActs ==
    \/ mpc = "idle" /\ mpc' = "clean"
    \/ mpc = "clean" /\ ci' # ci
    \/ mpc = "clean" /\ mpc' = "idle"

\* C31: no step of clean() takes a job out of the registry whose thread is
\* alive when the loop examines it, none moves a thread (stopped, restarted or
\* advanced), and none changes the id, owner or status of any job.
C31_CleanFrame ==
    [][CleanActs =>
         /\ jobs' = jobs
         /\ \A k \in 1 .. Len(jobs) :
              (InList(k) /\ ~(\E i \in 1 .. Len(processes') : processes'[i] = k))
                 => ~Alive(k)]_vars

\* clean() has returned having removed a finished job and kept a live one
C31_Witness ==
    /\ mpc = "idle" /\ lastOp = "clean"
    /\ Len(jobs) = 2 /\ Len(processes) = 1
    /\ Alive(processes[1])
    /\ doneAtCall # {}

(***************************************************************************)
(* clean() called again and again: the main thread goes on (add returns    *)
(* after its sleep, the loop of clean() takes its next iteration and       *)
(* returns), and clean() is called whenever a command is handled.          *)
(***************************************************************************)
NextClean ==
    \/ add \/ AddReturn \/ remove \/ JobEnds
    \/ CleanCall \/ CleanStep \/ CleanReturn

SpecClean ==
    /\ InitRegistry /\ [][NextClean]_vars
    /\ WF_vars(AddReturn)
    /\ WF_vars(CleanCall) /\ WF_vars(CleanStep) /\ WF_vars(CleanReturn)

AllFinished == \A k \in 1 .. Len(jobs) : ~Alive(k)

\* C32: every call of clean() returns; a call made with a finished job in the
\* registry has taken at least one of the finished jobs out when it returns;
\* and once every thread has finished, clean() called again and again empties
\* the registry unless a job is added.
C32_CleanProgress ==
    /\ (mpc = "clean") ~> (mpc = "idle" /\ lastOp = "clean")
    /\ [][(mpc = "clean" /\ mpc' = "idle" /\ doneAtCall # {})
             => \E i \in 1 .. Len(listAtCall) :
                   ~InList(listAtCall[i]) /\ ~Alive(listAtCall[i])]_vars
    /\ \A n \in 0 .. MaxJobs :
         (AllFinished /\ Len(jobs) = n) ~> (processes = <<>> \/ Len(jobs) > n)

\* clean() has returned having removed one of the two finished jobs it found
C32_Witness ==
    /\ mpc = "idle" /\ lastOp = "clean"
    /\ Cardinality(doneAtCall) = 2
    /\ Len(processes) = 1

(***************************************************************************)
(* remove() while the jobs' threads run, statement by statement            *)
(***************************************************************************)
NextRemove ==
    \/ add \/ AddReturn \/ RemoveCall
    \/ JobInit \/ JobRun \/ JobClose \/ JobExit \/ JobFinish \/ JobRaises

SpecRemove == InitRegistry /\ [][NextRemove]_vars

\* the thread of job k takes its next statement
ThreadStep(k) ==
    /\ JobInit \/ JobRun \/ JobClose \/ JobExit \/ JobFinish \/ JobRaises
    /\ jobs'[k] # jobs[k]

\* C33: remove(id) that finds a job only takes it out of the list: no job's
\* thread or attribute is touched by it; the removed job is from then on
\* neither in list() nor returned by find, whatever identifier is asked for,
\* and never comes back; and a thread that is alive can take its next
\* statement, to the end of _run or to an exception, in the registry or not.
C33_NoCancellation ==
    /\ [][(mpc = "idle" /\ mpc' = "idle" /\ processes' # processes) =>
            /\ jobs' = jobs
            /\ ret' # NONE /\ InList(ret')
            /\ processes' = SelectSeq(processes, NotJob)]_vars
    /\ []((lastOp = "remove" /\ ret # NONE) => ~InList(ret))
    /\ [](\A k \in 1 .. Len(jobs) : ~InList(k) => \A id \in GeneratedIds \cup JobIds : find(id) # k)
    /\ [][\A k \in 1 .. Len(jobs) : ~InList(k) =>
             ~(\E i \in 1 .. Len(processes') : processes'[i] = k)]_vars
    /\ [](\A k \in 1 .. Len(jobs) : Alive(k) => ENABLED ThreadStep(k))

\* a removed job whose thread is alive, run() behind it and close() ahead
C33_Witness ==
    /\ lastOp = "remove" /\ ret # NONE
    /\ ~InList(ret)
    /\ jobs[ret].tpc = "close"
    /\ jobs[ret].status = NONE

(***************************************************************************)
(* The status over a run of the handler                                    *)
(***************************************************************************)
\* C34: after critical(), fatal() or error() has set the status to the error
\* code, a call of warning(), info() or debug() in the same run leaves it there.
C34_Original ==
    [][(/\ lastLog.helper \in {"critical", "fatal", "error"}
        /\ lastLog.completed
        /\ status = STATUS_ERR
        /\ nHelper' = nHelper + 1
        /\ lastLog'.helper \in {"warning", "info", "debug"})
          => status' = STATUS_ERR]_vars

\* C35: a call of info() or debug() leaves the status as it was, whatever the
\* log_level, the message written or not.
C35_InfoDebugFrame ==
    [][(nHelper' = nHelper + 1 /\ lastLog'.helper \in {"info", "debug"})
          => status' = status]_vars

\* info() has returned without writing, the status still the error code that
\* an earlier helper set
C35_Witness ==
    /\ lastLog.helper = "info" /\ lastLog.completed /\ ~lastLog.wrote
    /\ status = STATUS_ERR

\* the driver has returned, or an exception has left it
RunEnded == pc \in {"done", "escaped"}

\* C36: a run of the handler ends with an integer status returned, never with
\* none, on each of its paths; a status that is not 0 stays so once set, and
\* the status returned is 0 exactly when no exception was raised and the
\* status was left unset or 0.
C36_FinalStatus ==
    /\ [](RunEnded =>
            /\ pc = "done"
            /\ result # NONE /\ result \in Nat
            /\ (result = STATUS_OK <=> (raisedIn = "none" /\ ~Truthy(status))))
    /\ [][Truthy(status) => Truthy(status')]_vars

\* a run through all five stages that set no status and returns 0
C36_Witness ==
    /\ pc = "done" /\ raisedIn = "none" /\ ~setupAborted
    /\ Invoked("run") /\ status = NONE /\ result = STATUS_OK

(***************************************************************************)
(* The session loop on an empty line, and cd                               *)
(***************************************************************************)
\* C37: when the tokenized line has no element (an empty or blank line, a
\* read ended by the break signal or by the end of input), the loop gives
\* nothing to the manager, ends by no exception and goes to the next prompt.
C37_Original ==
    [][(mpc = "dispatch" /\ cmd = <<>>) => (mpc' = "idle" /\ manageCalls' = <<>>)]_vars

(***************************************************************************)
(* cd in the session loop (run(), the branch cmd[0] == "cd"): the          *)
(* directories are those of a fixed file system; the user changes $HOME    *)
(* and $PWD with export.  The argument vectors are written with their      *)
(* tokens as strings here.                                                  *)
(***************************************************************************)
\* the paths of the file system and what os.chdir finds at each
Paths == {"/home", "/tmp", "/gone", "/file", "/locked"}

Kind(path) ==
    CASE path \in {"/home", "/tmp"} -> "dir"
      [] path = "/file" -> "file"
      [] path = "/locked" -> "denied"
      [] OTHER -> "missing"

\* what the user types after cd
CdArgs == Paths \cup {"\"/tmp\"", "$HOME", "$PWD", "$X"}

\* cmd[1].strip("\"").strip("'")
Stripped(a) == IF a = "\"/tmp\"" THEN "/tmp" ELSE a

\* new_dir.startswith("$")
IsVariable(a) == a \in {"$HOME", "$PWD", "$X"}

\* INFO.variables.get(new_dir).value or new_dir, for a variable that exists
NewDir(st, a) ==
    IF IsVariable(Stripped(a)) /\ Exists(st, Stripped(a))
      THEN Get(st, Stripped(a)).value
      ELSE Stripped(a)

\* the session begins with $HOME and $PWD at the home directory
InitCd ==
    /\ InitLifeDefault /\ InitJobs
    /\ snapshot = <<>> /\ shared = FALSE
    /\ cmd = <<>> /\ lastRead = "none" /\ manageCalls = <<>>
    /\ raw = <<>> /\ out = <<>> /\ lexed = FALSE
    /\ groups = <<>> /\ splitDone = FALSE
    /\ store = <<[name |-> "$HOME", value |-> "/home"], [name |-> "$PWD", value |-> "/home"]>>
    /\ lastStore = NoStoreOp
    /\ InitDispatcher /\ InitDirs

\* what a step of the loop leaves alone besides cmd, mpc, store and terminal
CdFrame ==
    /\ UNCHANGED <<jobs, processes, ci, doneAtCall, listAtCall, lastOp, arg, ret>>
    /\ UNCHANGED <<lastRead, manageCalls, lastStore>>
    /\ UNCHANGED <<lifeVars, viewVars, lexVars, dispVars>>

\* cd <dir>: os.chdir(terminal) has been done at the top of the loop, so
\* os.getcwd() is the terminal unless os.chdir(new_dir) succeeds.  get() of
\* a variable that does not exist gives no Variable: reading .value of it
\* raises (nothing in run() catches that), unless the store gives an object
\* with an empty value, and then new_dir stays the name.
CdTo ==
    /\ mpc = "idle"
    /\ \E a \in CdArgs, absentRaises \in BOOLEAN :
         /\ cmd' = <<"cd", a>>
         /\ IF IsVariable(Stripped(a)) /\ ~Exists(store, Stripped(a)) /\ absentRaises
              THEN /\ mpc' = "exited"
                   /\ UNCHANGED <<store, terminal>>
              ELSE /\ mpc' = "idle"
                   /\ IF Kind(NewDir(store, a)) = "dir"
                        THEN /\ store' = Set(store, "$PWD", NewDir(store, a))
                             /\ terminal' = NewDir(store, a)
                        ELSE UNCHANGED <<store, terminal>>
    /\ CdFrame

\* cd: os.chdir(INFO.variables.get("$HOME").value) is inside no try block
CdHome ==
    /\ mpc = "idle"
    /\ cmd' = <<"cd">>
    /\ LET home == Get(store, "$HOME").value
       IN  IF Kind(home) = "dir"
             THEN /\ terminal' = home
                  /\ store' = Set(store, "$PWD", home)
                  /\ mpc' = "idle"
             ELSE /\ mpc' = "exited"
                  /\ UNCHANGED <<store, terminal>>
    /\ CdFrame

\* export $HOME <path>, export $PWD <path>: set_variable of export.py
ExportPath ==
    /\ mpc = "idle"
    /\ \E name \in {"$HOME", "$PWD"}, v \in Paths :
         /\ cmd' = <<"export", name, v>>
         /\ store' = IF Exists(store, name) THEN Set(store, name, v)
                     ELSE Added(store, name, v)
    /\ mpc' = "idle"
    /\ UNCHANGED terminal
    /\ CdFrame

NextCd == CdTo \/ CdHome \/ ExportPath

SpecCd == InitCd /\ [][NextCd]_vars

\* C38: cd to a target that cannot be entered leaves $PWD and the terminal
\* path as they were and the loop goes on; cd alone sets the terminal path and
\* $PWD to the value of $HOME; cd to a directory sets $PWD to it.
C38_Original ==
    [][(cmd' # <<>> /\ cmd'[1] = "cd") =>
          IF Len(cmd') = 1
            THEN /\ terminal' = Get(store, "$HOME").value
                 /\ Get(store', "$PWD").value = Get(store, "$HOME").value
            ELSE (IsVariable(Stripped(cmd'[2])) => Exists(store, Stripped(cmd'[2])))
                   => IF Kind(NewDir(store, cmd'[2])) = "dir"
                        THEN Get(store', "$PWD").value = NewDir(store, cmd'[2])
                        ELSE /\ Get(store', "$PWD") = Get(store, "$PWD")
                             /\ terminal' = terminal
                             /\ mpc' = "idle"]_vars

====
